---- MODULE Spec2Model ----
(***************************************************************************)
(* orvrm: the route construction and feasibility engine of                 *)
(* src/services/routing.rs (RoutingService::process_request and the two    *)
(* route builders it dispatches to), with the OSRM oracle of               *)
(* src/services/osrm.rs as the environment.                                *)
(*                                                                         *)
(* Conventions.                                                            *)
(*  - Option<T> is a record [some |-> BOOLEAN, val |-> T].                 *)
(*  - A coordinate pair is represented by the string format!("{},{}")      *)
(*    yields for it (latitude fixed), LocNum gives its f64 value: "0" and  *)
(*    "-0" are different strings of equal f64 value.                       *)
(*  - f64 durations and distances of the oracle are kept in tenths (an     *)
(*    integer d stands for d/10), `x as i64` / `x as u32` is Trunc.        *)
(*  - An f64 score s is kept as 20*s, exact for the values used.           *)
(*  - The u32 subtraction of the capacity update is kept as integer        *)
(*    subtraction: a negative remaining capacity in the model is exactly   *)
(*    an underflow of the u32 in the code.                                 *)
(***************************************************************************)
EXTENDS Integers, Sequences, FiniteSets, TLC

VARIABLES
    request,        \* RoutingRequest: [vehicles, jobs]
    pc,             \* phase of process_request
    stage,          \* position inside the branch that is running
    vi,             \* index of the vehicle of the `for vehicle in &request.vehicles` loop
    matrix,         \* matrix_response of the table call (name of the table answered)
    locations,      \* the deduplicated coordinates the table was asked for
    assigned_jobs,  \* optimize_routes: HashSet of committed job ids
    loc_state,      \* optimize_routes: locals of the vehicle being extended
    routes,         \* Vec<VehicleRoute> built so far
    calls,          \* oracle calls issued so far, in order
    ran,            \* which of the two route builders were entered
    committed,      \* optimize_routes: route_jobs of each vehicle already left, in order
    response,       \* RoutingResponse (summary, unassigned) once computed
    http,           \* status answered by the /optimize handler, 0 before
    ev              \* inputs and results of the pure evaluators (EvalSpec)

vars == <<request, pc, stage, vi, matrix, locations, assigned_jobs, loc_state, routes,
          calls, ran, committed, response, http, ev>>

(***************************************************************************)
(* Bounds of the model and constants of the program.                       *)
(***************************************************************************)
MaxJobs == 2
BulkJobs == 11
MaxWindows == 2
MaxArrivalSteps == 6
MaxDims == 2
MaxRouteJobs == 10
ViolationPenalty == 3600

(***************************************************************************)
(* Option and sequence helpers.                                            *)
(***************************************************************************)
Some(x) == [some |-> TRUE, val |-> x]
NoneSeq == [some |-> FALSE, val |-> <<>>]
NoneInt == [some |-> FALSE, val |-> 0]
NoneTw == [some |-> FALSE, val |-> <<0, 0>>]

Range(s) == {s[i] : i \in 1..Len(s)}

RECURSIVE SumSeq(_)
SumSeq(s) == IF s = <<>> THEN 0 ELSE Head(s) + SumSeq(Tail(s))

Trunc(tenths) == tenths \div 10

Abs(x) == IF x < 0 THEN 0 - x ELSE x

(***************************************************************************)
(* Coordinates.                                                            *)
(***************************************************************************)
LocNum(l) ==
    CASE l = "0" -> 0
      [] l = "-0" -> 0
      [] l = "1" -> 1
      [] l = "2" -> 2
      [] l = "3" -> 3

(***************************************************************************)
(* The oracle (src/services/osrm.rs).  A table answer is one of Tables;    *)
(* its entry for a pair of coordinates is TableDuration.  A route answer   *)
(* has one leg per consecutive waypoint pair.                              *)
(***************************************************************************)
Tables == {"grid", "skew"}

TableDuration(tbl, a, b) ==
    LET pa == LocNum(a)
        pb == LocNum(b)
    IN  IF tbl = "grid" THEN 100 * Abs(pa - pb)
        ELSE IF pb >= pa THEN 105 * (pb - pa) ELSE 42 * (pa - pb)

LegDuration(a, b) == 115 * Abs(LocNum(a) - LocNum(b)) + 15

LegDistance(a, b) == 1007 * Abs(LocNum(a) - LocNum(b)) + 8

OsrmRoute(coordinates) ==
    LET n == Len(coordinates) - 1
        ld == [i \in 1..n |-> LegDuration(coordinates[i], coordinates[i + 1])]
        lx == [i \in 1..n |-> LegDistance(coordinates[i], coordinates[i + 1])]
    IN  [legs |-> ld, duration |-> SumSeq(ld), distance |-> SumSeq(lx)]

RouteOutcomes == {"ok", "empty", "fail"}

(***************************************************************************)
(* Requests (src/models/job.rs, vehicle.rs, request.rs).  Job ids are      *)
(* unique within a request and are not in list order.                      *)
(***************************************************************************)
JobKinds ==
    { [location |-> "1", service |-> 0, delivery |-> NoneSeq, time_windows |-> NoneSeq],
      [location |-> "1", service |-> 2, delivery |-> Some(<<5>>), time_windows |-> NoneSeq],
      [location |-> "2", service |-> 3, delivery |-> Some(<<5>>), time_windows |-> NoneSeq],
      [location |-> "3", service |-> 0, delivery |-> Some(<<10>>), time_windows |-> NoneSeq],
      [location |-> "2", service |-> 1, delivery |-> Some(<<5, 5>>), time_windows |-> NoneSeq],
      [location |-> "2", service |-> 1, delivery |-> NoneSeq,
       time_windows |-> Some(<< <<30, 60>>, <<0, 100>> >>)],
      [location |-> "3", service |-> 0, delivery |-> NoneSeq, time_windows |-> Some(<<>>)],
      [location |-> "1", service |-> 4, delivery |-> NoneSeq,
       time_windows |-> Some(<< <<12, 13>> >>)] }

Job(kind, id) ==
    [id |-> id, location |-> kind.location, service |-> kind.service,
     delivery |-> kind.delivery, time_windows |-> kind.time_windows]

JobLists(n) ==
    { [i \in 1..n |-> Job(f[i], n + 1 - i)] : f \in [1..n -> JobKinds] }

BulkJobList ==
    [i \in 1..BulkJobs |->
        Job([location |-> IF i % 2 = 0 THEN "1" ELSE "2", service |-> 1,
             delivery |-> Some(<<1>>), time_windows |-> NoneSeq], i)]

StartStep(service_after) == [type |-> "start", id |-> 0, service_after |-> service_after]
JobStep(id) == [type |-> "job", id |-> id, service_after |-> NoneInt]
EndStep == [type |-> "end", id |-> 0, service_after |-> NoneInt]

Vehicle(id, start, end, capacity, time_window, steps) ==
    [id |-> id, start |-> start, end |-> end, capacity |-> capacity,
     time_window |-> time_window, steps |-> steps]

ConstructedFleets ==
    { <<>>,
      << Vehicle(1, "0", "0", <<>>, NoneTw, NoneSeq) >>,
      << Vehicle(1, "0", "0", <<10>>, NoneTw, NoneSeq) >>,
      << Vehicle(1, "0", "3", <<5>>, Some(<<0, 34>>), NoneSeq) >>,
      << Vehicle(1, "0", "0", <<5>>, NoneTw, NoneSeq),
         Vehicle(2, "1", "0", <<10, 10>>, Some(<<10, 60>>), NoneSeq) >>,
      << Vehicle(1, "0", "0", <<10>>, NoneTw, Some(<<>>)),
         Vehicle(2, "3", "3", <<>>, NoneTw, NoneSeq) >>,
      << Vehicle(1, "0", "-0", <<10>>, NoneTw, NoneSeq) >> }

PredefinedFleets ==
    { << Vehicle(1, "0", "0", <<>>, NoneTw,
                 Some(<<StartStep(NoneInt), JobStep(1), JobStep(2), EndStep>>)) >>,
      << Vehicle(1, "0", "3", <<5>>, Some(<<10, 90>>), Some(<<JobStep(1)>>)) >>,
      << Vehicle(1, "0", "0", <<>>, Some(<<10, 90>>),
                 Some(<<StartStep(Some(7)), JobStep(2), JobStep(1), EndStep>>)) >>,
      << Vehicle(1, "0", "0", <<>>, Some(<<10, 90>>),
                 Some(<<StartStep(NoneInt), JobStep(1)>>)) >>,
      << Vehicle(1, "0", "0", <<>>, NoneTw, Some(<<JobStep(1), JobStep(1)>>)) >>,
      << Vehicle(1, "0", "0", <<>>, NoneTw, Some(<<JobStep(1)>>)),
         Vehicle(2, "3", "0", <<>>, NoneTw, Some(<<JobStep(1), JobStep(2)>>)) >>,
      << Vehicle(1, "0", "0", <<>>, NoneTw, Some(<<StartStep(NoneInt), EndStep>>)),
         Vehicle(2, "0", "0", <<10>>, NoneTw, NoneSeq) >>,
      << Vehicle(1, "0", "0", <<>>, NoneTw, Some(<<JobStep(9), JobStep(1)>>)) >>,
      << Vehicle(1, "0", "0", <<>>, NoneTw, Some(<<JobStep(9), JobStep(8)>>)) >>,
      << Vehicle(1, "0", "0", <<10>>, NoneTw, NoneSeq),
         Vehicle(2, "0", "-0", <<>>, NoneTw, Some(<<EndStep, JobStep(2)>>)) >> }

BulkFleets ==
    { << Vehicle(1, "0", "0", <<20>>, NoneTw, NoneSeq) >>,
      << Vehicle(1, "0", "0", <<20>>, NoneTw, NoneSeq),
         Vehicle(2, "3", "0", <<>>, NoneTw, NoneSeq),
         Vehicle(3, "3", "0", <<5>>, NoneTw, NoneSeq) >> }

Requests ==
    { [vehicles |-> vs, jobs |-> js] :
        vs \in ConstructedFleets \cup PredefinedFleets,
        js \in UNION { JobLists(n) : n \in 0..MaxJobs } }
    \cup { [vehicles |-> vs, jobs |-> BulkJobList] : vs \in BulkFleets }

NoRequest == [vehicles |-> <<>>, jobs |-> <<>>]

(***************************************************************************)
(* Initial state: a request has been received by the /optimize handler.    *)
(***************************************************************************)
NoLocals ==
    [start_idx |-> 0, end_idx |-> 0, current_time |-> 0, route_jobs |-> <<>>,
     current_idx |-> 0, current_capacity |-> <<>>,
     current_arrival_times |-> <<>>, current_departure_times |-> <<>>,
     rounds |-> 0, cands |-> <<>>, best_job |-> 0]

NoResponse ==
    [unassigned |-> <<>>, cost |-> 0, distance |-> 0, duration |-> 0, routes |-> 0,
     summary_unassigned |-> 0, time_window_violations |-> 0]

NoEval ==
    [arrival |-> 0, time_windows |-> NoneSeq, remaining |-> <<>>, delivery |-> NoneSeq,
     applied |-> {}, tw |-> [is_feasible |-> FALSE, waiting_time |-> 0,
                             service_start_time |-> 0],
     can_deliver |-> FALSE]

Init ==
    /\ request \in Requests
    /\ pc = "Received"
    /\ stage = "none"
    /\ vi = 0
    /\ matrix = "none"
    /\ locations = <<>>
    /\ assigned_jobs = {}
    /\ loc_state = NoLocals
    /\ routes = <<>>
    /\ calls = <<>>
    /\ ran = {}
    /\ committed = <<>>
    /\ response = NoResponse
    /\ http = 0
    /\ ev = NoEval

(***************************************************************************)
(* process_request, lines 81-101: the branch.                              *)
(***************************************************************************)
\* faulty variant: an empty `steps` list counts as a predefined route
has_predefined_routes_any_some(req) ==
    \E i \in 1..Len(req.vehicles) : req.vehicles[i].steps.some

has_predefined_routes(req) ==
    \E i \in 1..Len(req.vehicles) :
        req.vehicles[i].steps.some /\ req.vehicles[i].steps.val # <<>>

Branch ==
    /\ pc = "Received"
    /\ IF has_predefined_routes(request)
       THEN /\ pc' = "PredefinedBranch"
            /\ stage' = "vehicle"
            /\ ran' = ran \cup {"expander"}
       ELSE /\ pc' = "ConstructedBranch"
            /\ stage' = "table"
            /\ ran' = ran \cup {"assigner"}
    /\ vi' = 1
    /\ UNCHANGED <<request, matrix, locations, assigned_jobs, loc_state, routes, calls,
                   committed, response, http, ev>>

(***************************************************************************)
(* optimize_routes, lines 386-424: the locations and the table call.       *)
(***************************************************************************)
RECURSIVE VehicleLocations(_)
VehicleLocations(vs) ==
    IF vs = <<>> THEN <<>>
    ELSE LET v == Head(vs)
         IN  (IF LocNum(v.start) # LocNum(v.end) THEN <<v.start, v.end>> ELSE <<v.start>>)
             \o VehicleLocations(Tail(vs))

all_locations(req) ==
    VehicleLocations(req.vehicles) \o [i \in 1..Len(req.jobs) |-> req.jobs[i].location]

\* seen.insert(key) keeps the first occurrence of every key, in order
Dedup(s, acc) ==
    LET all == acc \o s
        kept == { i \in 1..Len(all) : \A j \in 1..(i - 1) : all[j] # all[i] }
    IN  [k \in 1..Cardinality(kept) |->
            all[CHOOSE i \in kept : Cardinality({ j \in kept : j <= i }) = k]]

unique_locations(req) == Dedup(all_locations(req), <<>>)

\* iter().position(..): 0 stands for None
Position(s, x) ==
    IF x \in Range(s) THEN CHOOSE i \in 1..Len(s) : s[i] = x /\ \A j \in 1..(i - 1) : s[j] # x
    ELSE 0

\* matrix_response.durations[i][j], in tenths
durations(i, j) ==
    TableDuration(matrix, locations[i], locations[j])

TableRequest(req, outcome) ==
    [kind |-> "table", vehicle |-> 0, coordinates |-> unique_locations(req),
     outcome |-> outcome]

TableCall ==
    /\ pc = "ConstructedBranch"
    /\ stage = "table"
    /\ locations' = unique_locations(request)
    /\ \/ \E tbl \in Tables :
            /\ calls' = Append(calls, TableRequest(request, "ok"))
            /\ matrix' = tbl
            /\ stage' = "vehicle"
            /\ pc' = pc
       \/ /\ calls' = Append(calls, TableRequest(request, "fail"))
          /\ matrix' = matrix
          /\ stage' = "none"
          /\ pc' = "Error"
    /\ UNCHANGED <<request, vi, assigned_jobs, loc_state, routes, ran, committed, response, http, ev>>

(***************************************************************************)
(* optimize_routes, lines 430-463: the locals of one vehicle.              *)
(***************************************************************************)
VehicleStart ==
    /\ pc = "ConstructedBranch"
    /\ stage = "vehicle"
    /\ vi <= Len(request.vehicles)
    /\ LET vehicle == request.vehicles[vi]
           start_idx == Position(locations, vehicle.start)
           end_idx == Position(locations, vehicle.end)
           current_time == IF vehicle.time_window.some THEN vehicle.time_window.val[1] ELSE 0
       IN  IF start_idx = 0 \/ end_idx = 0
           THEN \* .unwrap() on None
                /\ pc' = "Panicked"
                /\ stage' = "none"
                /\ loc_state' = loc_state
           ELSE /\ pc' = pc
                /\ stage' = "extend"
                /\ loc_state' =
                     [start_idx |-> start_idx, end_idx |-> end_idx,
                      current_time |-> current_time, route_jobs |-> <<>>,
                      current_idx |-> start_idx, current_capacity |-> vehicle.capacity,
                      current_arrival_times |-> <<current_time>>,
                      current_departure_times |-> <<current_time>>,
                      rounds |-> 0, cands |-> <<>>, best_job |-> 0]
    /\ UNCHANGED <<request, vi, matrix, locations, assigned_jobs, routes, calls, ran, committed, response,
                   http, ev>>

(***************************************************************************)
(* optimize_routes, lines 480-493: the capacity check of one job.          *)
(***************************************************************************)
\* faulty variant: the comparison with the remaining amount is inverted
RECURSIVE scan_delivery_inverted(_, _, _)
scan_delivery_inverted(current_capacity, delivery, i) ==
    IF i > Len(delivery) THEN TRUE
    ELSE IF i > Len(current_capacity) \/ delivery[i] < current_capacity[i] THEN FALSE
    ELSE scan_delivery_inverted(current_capacity, delivery, i + 1)

RECURSIVE scan_delivery(_, _, _)
scan_delivery(current_capacity, delivery, i) ==
    IF i > Len(delivery) THEN TRUE
    ELSE IF i > Len(current_capacity) \/ delivery[i] > current_capacity[i] THEN FALSE
    ELSE scan_delivery(current_capacity, delivery, i + 1)

\* faulty variant: only the number of dimensions is checked
can_deliver_dims_only(current_capacity, delivery) ==
    Len(delivery) <= Len(current_capacity)

\* faulty variant: dimensions beyond the capacity vector are let through
can_deliver_passthrough(current_capacity, delivery) ==
    \A i \in 1..Len(delivery) :
        i > Len(current_capacity) \/ delivery[i] <= current_capacity[i]

can_deliver(current_capacity, delivery) == scan_delivery(current_capacity, delivery, 1)

capacity_check(current_capacity, delivery) ==
    IF delivery.some THEN can_deliver(current_capacity, delivery.val) ELSE TRUE

(***************************************************************************)
(* optimize_routes, lines 506-531: the time windows of one job.            *)
(***************************************************************************)
\* faulty variant: a window's end is exclusive
RECURSIVE scan_windows_end_exclusive(_, _, _)
scan_windows_end_exclusive(arrival_time, time_windows, k) ==
    IF k > Len(time_windows)
    THEN [found_window |-> FALSE, waiting_time |-> 0, service_start_time |-> arrival_time]
    ELSE IF arrival_time < time_windows[k][2]
         THEN IF arrival_time < time_windows[k][1]
              THEN [found_window |-> TRUE,
                    waiting_time |-> time_windows[k][1] - arrival_time,
                    service_start_time |-> time_windows[k][1]]
              ELSE [found_window |-> TRUE, waiting_time |-> 0,
                    service_start_time |-> arrival_time]
         ELSE scan_windows_end_exclusive(arrival_time, time_windows, k + 1)

RECURSIVE scan_windows(_, _, _)
scan_windows(arrival_time, time_windows, k) ==
    IF k > Len(time_windows)
    THEN [found_window |-> FALSE, waiting_time |-> 0, service_start_time |-> arrival_time]
    ELSE IF arrival_time <= time_windows[k][2]
         THEN IF arrival_time < time_windows[k][1]
              THEN [found_window |-> TRUE,
                    waiting_time |-> time_windows[k][1] - arrival_time,
                    service_start_time |-> time_windows[k][1]]
              ELSE [found_window |-> TRUE, waiting_time |-> 0,
                    service_start_time |-> arrival_time]
         ELSE scan_windows(arrival_time, time_windows, k + 1)

(* Variant of time_window_check: a job that fits no window is served on arrival. *)
time_window_check_unenforced(arrival_time, time_windows) ==
    IF time_windows.some
    THEN LET r == scan_windows(arrival_time, time_windows.val, 1)
         IN  [is_feasible |-> TRUE, waiting_time |-> r.waiting_time,
              service_start_time |-> r.service_start_time]
    ELSE [is_feasible |-> TRUE, waiting_time |-> 0, service_start_time |-> arrival_time]

time_window_check(arrival_time, time_windows) ==
    IF time_windows.some
    THEN LET r == scan_windows(arrival_time, time_windows.val, 1)
         IN  [is_feasible |-> r.found_window, waiting_time |-> r.waiting_time,
              service_start_time |-> r.service_start_time]
    ELSE [is_feasible |-> TRUE, waiting_time |-> 0, service_start_time |-> arrival_time]

(***************************************************************************)
(* optimize_routes, lines 475-555: one pass over the jobs, and the choice. *)
(***************************************************************************)
score(travel_duration, waiting_time) == 2 * travel_duration + 10 * waiting_time

(* Variant of return_check: the return to the end location is never tested. *)
return_check_absent(vehicle, return_time) == TRUE

return_check(vehicle, return_time) ==
    ~vehicle.time_window.some \/ ~(return_time > vehicle.time_window.val[2])

Candidate(job, st, vehicle) ==
    LET job_idx == Position(locations, job.location)
        travel_duration == durations(st.current_idx, job_idx)
        arrival_time == st.current_time + Trunc(travel_duration)
        tw == time_window_check(arrival_time, job.time_windows)
        departure_time == tw.service_start_time + job.service
        return_time == departure_time + Trunc(durations(job_idx, st.end_idx))
    IN  [skipped |-> job.id \in assigned_jobs,
         can_deliver |-> capacity_check(st.current_capacity, job.delivery),
         travel_duration |-> travel_duration,
         arrival_time |-> arrival_time,
         tw_feasible |-> tw.is_feasible,
         waiting_time |-> tw.waiting_time,
         service_start_time |-> tw.service_start_time,
         departure_time |-> departure_time,
         is_feasible |-> tw.is_feasible /\ return_check(vehicle, return_time),
         score |-> score(travel_duration, tw.waiting_time)]

(* Variant of Eligible: jobs already assigned are not passed over. *)
Eligible_ignores_assigned(c) == c.can_deliver /\ c.is_feasible

Eligible(c) == ~c.skipped /\ c.can_deliver /\ c.is_feasible

\* faulty variant: among equal scores the last job met wins
RECURSIVE best_job_last_wins(_, _, _)
best_job_last_wins(cands, k, best) ==
    IF k > Len(cands) THEN best
    ELSE best_job_last_wins(cands, k + 1,
                  IF Eligible(cands[k]) /\ (best = 0 \/ cands[k].score <= cands[best].score)
                  THEN k ELSE best)

\* best = 0 stands for best_job = None, best_score = f64::MAX; scan[<<k, best>>]
\* is the loop from job k on with the best job found so far
best_job(cands, k, best) ==
    LET scan[kb \in (1..(Len(cands) + 1)) \X (0..Len(cands))] ==
            IF kb[1] > Len(cands) THEN kb[2]
            ELSE scan[<<kb[1] + 1,
                        IF /\ Eligible(cands[kb[1]])
                           /\ (kb[2] = 0 \/ cands[kb[1]].score < cands[kb[2]].score)
                        THEN kb[1] ELSE kb[2]>>]
    IN  scan[<<k, best>>]

(***************************************************************************)
(* optimize_routes, lines 573-580: the capacity update at commit.          *)
(***************************************************************************)
deduct(current_capacity, delivery) ==
    [i \in 1..Len(current_capacity) |->
        IF delivery.some /\ i <= Len(delivery.val)
        THEN current_capacity[i] - delivery.val[i]
        ELSE current_capacity[i]]

\* faulty variant: a loop without a round limit, left only when the route is full
loop_break_only_when_full(st) == Len(st.route_jobs) >= MaxRouteJobs

\* faulty variant: the limit on the committed list is off by one
loop_break_off_by_one(st) ==
    \/ st.rounds >= Len(request.jobs)
    \/ Len(st.route_jobs) > MaxRouteJobs
    \/ Cardinality(assigned_jobs) >= Len(request.jobs)

loop_break(st) ==
    \/ st.rounds >= Len(request.jobs)
    \/ Len(st.route_jobs) >= MaxRouteJobs
    \/ Cardinality(assigned_jobs) >= Len(request.jobs)

(***************************************************************************)
(* optimize_routes, lines 465-584: one iteration of the extension loop.    *)
(***************************************************************************)
ExtendRound ==
    /\ pc = "ConstructedBranch"
    /\ stage = "extend"
    /\ IF loop_break(loc_state)
       THEN /\ stage' = "route"
            /\ loc_state' = [loc_state EXCEPT !.cands = <<>>, !.best_job = 0]
            /\ assigned_jobs' = assigned_jobs
       ELSE \E cands \in { [k \in 1..Len(request.jobs) |->
                                Candidate(request.jobs[k], loc_state, request.vehicles[vi])] } :
            \E best \in { best_job(cands, 1, 0) } :
                IF best = 0
                THEN /\ stage' = "route"
                     /\ loc_state' = [loc_state EXCEPT !.cands = cands, !.best_job = 0,
                                                       !.rounds = @ + 1]
                     /\ assigned_jobs' = assigned_jobs
                ELSE LET job == request.jobs[best]
                     IN  /\ stage' = stage
                         /\ assigned_jobs' = assigned_jobs \cup {job.id}
                         /\ loc_state' =
                              [loc_state EXCEPT
                                 !.route_jobs = Append(@, job.id),
                                 !.current_idx =
                                     Position(locations, job.location),
                                 !.current_time = cands[best].departure_time,
                                 !.current_arrival_times =
                                     Append(@, cands[best].arrival_time),
                                 !.current_departure_times =
                                     Append(@, cands[best].departure_time),
                                 !.current_capacity = deduct(@, job.delivery),
                                 !.rounds = @ + 1,
                                 !.cands = cands,
                                 !.best_job = best]
    /\ UNCHANGED <<request, pc, vi, matrix, locations, routes, calls, ran, committed, response, http, ev>>

(***************************************************************************)
(* Produced steps and routes (src/models/vehicle.rs).                      *)
(***************************************************************************)
NoneLoc == [some |-> FALSE, val |-> ""]

OutStep(type, id, service_after, location, service, arrival_time, departure_time) ==
    [type |-> type, id |-> id, service_after |-> service_after, location |-> location,
     service |-> service, arrival_time |-> arrival_time,
     departure_time |-> departure_time]

Last(s) == s[Len(s)]

\* request.jobs.iter().find(|j| j.id == id).unwrap(), for a committed id
find_job(id) ==
    request.jobs[CHOOSE k \in 1..Len(request.jobs) :
                    /\ request.jobs[k].id = id
                    /\ \A j \in 1..(k - 1) : request.jobs[j].id # id]

\* job_map.get(id): the map is collected in list order, a later entry replaces
job_map_get(id) ==
    IF \E k \in 1..Len(request.jobs) : request.jobs[k].id = id
    THEN Some(request.jobs[CHOOSE k \in 1..Len(request.jobs) :
                              /\ request.jobs[k].id = id
                              /\ \A j \in (k + 1)..Len(request.jobs) :
                                    request.jobs[j].id # id])
    ELSE [some |-> FALSE, val |-> Job(CHOOSE kind \in JobKinds : TRUE, 0)]

(***************************************************************************)
(* optimize_routes, lines 586-669: the route of one vehicle.               *)
(***************************************************************************)
constructed_coordinates(vehicle, route_jobs) ==
    <<vehicle.start>>
    \o [i \in 1..Len(route_jobs) |-> find_job(route_jobs[i]).location]
    \o <<vehicle.end>>

(* Variant of constructed_route: the return is timed by the table. *)
constructed_route_table_leg(vehicle, st, osrm_route) ==
    LET final_leg_duration == Trunc(durations(st.current_idx, st.end_idx))
        final_arrival_time == st.current_time + final_leg_duration
        arrival_times == Append(st.current_arrival_times, final_arrival_time)
        departure_times == Append(st.current_departure_times, final_arrival_time)
        service_after == IF vehicle.time_window.some
                         THEN Some(vehicle.time_window.val[1]) ELSE NoneInt
        job_steps == [i \in 1..Len(st.route_jobs) |->
                        LET job == find_job(st.route_jobs[i])
                        IN  OutStep("job", st.route_jobs[i], NoneInt, Some(job.location),
                                    Some(job.service), arrival_times[i + 1],
                                    departure_times[i + 1])]
    IN  [vehicle_id |-> vehicle.id,
         route |-> st.route_jobs,
         steps |-> <<OutStep("start", 0, service_after, Some(vehicle.start), NoneInt,
                             arrival_times[1], departure_times[1])>>
                   \o job_steps
                   \o <<OutStep("end", 0, NoneInt, Some(vehicle.end), NoneInt,
                                Last(arrival_times), Last(departure_times))>>,
         distance |-> Trunc(osrm_route.distance),
         duration |-> Trunc(osrm_route.duration),
         arrival_times |-> arrival_times,
         departure_times |-> departure_times]

constructed_route(vehicle, st, osrm_route) ==
    LET final_leg_duration == Trunc(Last(osrm_route.legs))
        final_arrival_time == st.current_time + final_leg_duration
        arrival_times == Append(st.current_arrival_times, final_arrival_time)
        departure_times == Append(st.current_departure_times, final_arrival_time)
        service_after == IF vehicle.time_window.some
                         THEN Some(vehicle.time_window.val[1]) ELSE NoneInt
        job_steps == [i \in 1..Len(st.route_jobs) |->
                        LET job == find_job(st.route_jobs[i])
                        IN  OutStep("job", st.route_jobs[i], NoneInt, Some(job.location),
                                    Some(job.service), arrival_times[i + 1],
                                    departure_times[i + 1])]
    IN  [vehicle_id |-> vehicle.id,
         route |-> st.route_jobs,
         steps |-> <<OutStep("start", 0, service_after, Some(vehicle.start), NoneInt,
                             arrival_times[1], departure_times[1])>>
                   \o job_steps
                   \o <<OutStep("end", 0, NoneInt, Some(vehicle.end), NoneInt,
                                Last(arrival_times), Last(departure_times))>>,
         distance |-> Trunc(osrm_route.distance),
         duration |-> Trunc(osrm_route.duration),
         arrival_times |-> arrival_times,
         departure_times |-> departure_times]

RouteCall(vehicle, coordinates, outcome) ==
    [kind |-> "route", vehicle |-> vehicle.id, coordinates |-> coordinates,
     outcome |-> outcome]

(* Variant of no_route: a route is requested for every vehicle. *)
no_route_never(route_jobs) == FALSE

(* lines 586-588: a vehicle that committed no job is skipped. *)
no_route(route_jobs) == route_jobs = <<>>

(* Variant of VehicleRoute: an answer without a route ends the request. *)
VehicleRoute_empty_is_error ==
    /\ pc = "ConstructedBranch"
    /\ stage = "route"
    /\ LET vehicle == request.vehicles[vi]
           coordinates == constructed_coordinates(vehicle, loc_state.route_jobs)
       IN  IF no_route(loc_state.route_jobs)
           THEN /\ vi' = vi + 1
                /\ stage' = "vehicle"
                /\ UNCHANGED <<pc, routes, calls>>
           ELSE \/ /\ calls' = Append(calls, RouteCall(vehicle, coordinates, "fail"))
                   /\ pc' = "Error"
                   /\ stage' = "none"
                   /\ UNCHANGED <<vi, routes>>
                \/ /\ calls' = Append(calls, RouteCall(vehicle, coordinates, "empty"))
                   /\ pc' = "Error"
                   /\ stage' = "none"
                   /\ UNCHANGED <<vi, routes>>
                \/ /\ calls' = Append(calls, RouteCall(vehicle, coordinates, "ok"))
                   /\ vi' = vi + 1
                   /\ stage' = "vehicle"
                   /\ routes' = Append(routes, constructed_route(vehicle, loc_state,
                                                      OsrmRoute(coordinates)))
                   /\ pc' = pc
    /\ committed' = Append(committed, loc_state.route_jobs)
    /\ UNCHANGED <<request, matrix, locations, assigned_jobs, loc_state, ran, response, http, ev>>

VehicleRoute ==
    /\ pc = "ConstructedBranch"
    /\ stage = "route"
    /\ LET vehicle == request.vehicles[vi]
           coordinates == constructed_coordinates(vehicle, loc_state.route_jobs)
       IN  IF no_route(loc_state.route_jobs)
           THEN /\ vi' = vi + 1
                /\ stage' = "vehicle"
                /\ UNCHANGED <<pc, routes, calls>>
           ELSE \/ /\ calls' = Append(calls, RouteCall(vehicle, coordinates, "fail"))
                   /\ pc' = "Error"
                   /\ stage' = "none"
                   /\ UNCHANGED <<vi, routes>>
                \/ /\ calls' = Append(calls, RouteCall(vehicle, coordinates, "empty"))
                   /\ vi' = vi + 1
                   /\ stage' = "vehicle"
                   /\ UNCHANGED <<pc, routes>>
                \/ /\ calls' = Append(calls, RouteCall(vehicle, coordinates, "ok"))
                   /\ vi' = vi + 1
                   /\ stage' = "vehicle"
                   /\ routes' = Append(routes, constructed_route(vehicle, loc_state,
                                                      OsrmRoute(coordinates)))
                   /\ pc' = pc
    /\ committed' = Append(committed, loc_state.route_jobs)
    /\ UNCHANGED <<request, matrix, locations, assigned_jobs, loc_state, ran, response, http, ev>>

(***************************************************************************)
(* process_predefined_routes, lines 211-368: one vehicle.                  *)
(***************************************************************************)
(* Variant of job_ids: the ids of all steps are taken, Start and End included. *)
job_ids_of_all_steps(steps) == [k \in 1..Len(steps) |-> steps[k].id]

RECURSIVE job_ids(_)
job_ids(steps) ==
    IF steps = <<>> THEN <<>>
    ELSE (IF Head(steps).type = "job" THEN <<Head(steps).id>> ELSE <<>>)
         \o job_ids(Tail(steps))

RECURSIVE known_locations(_)
known_locations(ids) ==
    IF ids = <<>> THEN <<>>
    ELSE (IF job_map_get(Head(ids)).some
          THEN <<job_map_get(Head(ids)).val.location>> ELSE <<>>)
         \o known_locations(Tail(ids))

predefined_coordinates(vehicle, ids) ==
    <<vehicle.start>> \o known_locations(ids) \o <<vehicle.end>>

\* lines 256-268
start_time(vehicle, steps) ==
    IF steps # <<>> /\ steps[1].type = "start"
    THEN IF steps[1].service_after.some THEN steps[1].service_after.val ELSE 0
    ELSE IF vehicle.time_window.some THEN vehicle.time_window.val[1] ELSE 0

(* Variant of expander_service_start: a job that arrives after all its     *)
(* windows is put back at the end of the last one.                         *)
RECURSIVE expander_service_start_clamped(_, _, _)
expander_service_start_clamped(arrival_time, time_windows, k) ==
    IF k > Len(time_windows)
    THEN IF time_windows = <<>> THEN arrival_time ELSE time_windows[Len(time_windows)][2]
    ELSE IF arrival_time <= time_windows[k][2]
         THEN IF arrival_time < time_windows[k][1] THEN time_windows[k][1]
              ELSE arrival_time
         ELSE expander_service_start_clamped(arrival_time, time_windows, k + 1)

\* lines 281-294: the wait for a window, nothing is rejected
RECURSIVE expander_service_start(_, _, _)
expander_service_start(arrival_time, time_windows, k) ==
    IF k > Len(time_windows) THEN arrival_time
    ELSE IF arrival_time <= time_windows[k][2]
         THEN IF arrival_time < time_windows[k][1] THEN time_windows[k][1]
              ELSE arrival_time
         ELSE expander_service_start(arrival_time, time_windows, k + 1)

\* lines 272-301; panic: osrm_route.legs[i] out of range
RECURSIVE job_stops(_, _, _, _, _, _)
job_stops(ids, legs, i, current_time, arrival_times, departure_times) ==
    IF i > Len(ids)
    THEN [panic |-> FALSE, arrival_times |-> arrival_times,
          departure_times |-> departure_times]
    ELSE IF i > Len(legs)
    THEN [panic |-> TRUE, arrival_times |-> arrival_times,
          departure_times |-> departure_times]
    ELSE LET arrival_time == current_time + Trunc(legs[i])
             job == job_map_get(ids[i])
             service_start_time ==
                 IF job.val.time_windows.some
                 THEN expander_service_start(arrival_time, job.val.time_windows.val, 1)
                 ELSE arrival_time
             next_time == IF job.some THEN service_start_time + job.val.service
                          ELSE arrival_time
         IN  job_stops(ids, legs, i + 1, next_time, Append(arrival_times, arrival_time),
                       Append(departure_times, next_time))

predefined_route(vehicle, ids, osrm_route) ==
    LET steps == vehicle.steps.val
        t == job_stops(ids, osrm_route.legs, 1, start_time(vehicle, steps),
                       <<0>>, <<start_time(vehicle, steps)>>)
        job_steps == [i \in 1..Len(ids) |->
                        LET job == job_map_get(ids[i])
                        IN  OutStep("job", ids[i], NoneInt,
                                    IF job.some THEN Some(job.val.location) ELSE NoneLoc,
                                    IF job.some THEN Some(job.val.service) ELSE NoneInt,
                                    t.arrival_times[i + 1], t.departure_times[i + 1])]
    IN  [panic |-> t.panic,
         route |->
           [vehicle_id |-> vehicle.id,
            route |-> ids,
            steps |-> <<OutStep("start", 0,
                                IF steps[1].type = "start" THEN steps[1].service_after
                                ELSE NoneInt,
                                Some(vehicle.start), NoneInt,
                                t.arrival_times[1], t.departure_times[1])>>
                      \o (IF t.panic THEN <<>> ELSE job_steps)
                      \o <<OutStep("end", 0, NoneInt, Some(vehicle.end), NoneInt,
                                   Last(t.arrival_times), Last(t.departure_times))>>,
            distance |-> Trunc(osrm_route.distance),
            duration |-> Trunc(osrm_route.duration),
            arrival_times |-> t.arrival_times,
            departure_times |-> t.departure_times]]

ExpandVehicle ==
    /\ pc = "PredefinedBranch"
    /\ stage = "vehicle"
    /\ vi <= Len(request.vehicles)
    /\ LET vehicle == request.vehicles[vi]
           ids == job_ids(vehicle.steps.val)
           coordinates == predefined_coordinates(vehicle, ids)
           built == predefined_route(vehicle, ids, OsrmRoute(coordinates))
       IN  IF ~vehicle.steps.some \/ ids = <<>>
           THEN /\ vi' = vi + 1
                /\ UNCHANGED <<pc, stage, routes, calls>>
           ELSE \/ /\ calls' = Append(calls, RouteCall(vehicle, coordinates, "fail"))
                   /\ pc' = "Error"
                   /\ stage' = "none"
                   /\ UNCHANGED <<vi, routes>>
                \/ /\ calls' = Append(calls, RouteCall(vehicle, coordinates, "empty"))
                   /\ vi' = vi + 1
                   /\ UNCHANGED <<pc, stage, routes>>
                \/ /\ calls' = Append(calls, RouteCall(vehicle, coordinates, "ok"))
                   /\ IF built.panic
                      THEN /\ pc' = "Panicked"
                           /\ stage' = "none"
                           /\ UNCHANGED <<vi, routes>>
                      ELSE /\ vi' = vi + 1
                           /\ routes' = Append(routes, built.route)
                           /\ UNCHANGED <<pc, stage>>
    /\ UNCHANGED <<request, matrix, locations, assigned_jobs, loc_state, ran, committed, response, http, ev>>

RoutesDone ==
    /\ pc \in {"PredefinedBranch", "ConstructedBranch"}
    /\ stage = "vehicle"
    /\ vi > Len(request.vehicles)
    /\ pc' = "RoutesBuilt"
    /\ stage' = "none"
    /\ UNCHANGED <<request, vi, matrix, locations, assigned_jobs, loc_state, routes, calls, ran, committed,
                   response, http, ev>>

(***************************************************************************)
(* process_request, lines 103-161: unassigned jobs and the summary.        *)
(***************************************************************************)
routed_ids(rs) == UNION { Range(rs[r].route) : r \in 1..Len(rs) }

(* Variant of unassigned_jobs: the ids are collected in reverse list order. *)
RECURSIVE unassigned_jobs_reversed(_, _)
unassigned_jobs_reversed(jobs, assigned) ==
    IF jobs = <<>> THEN <<>>
    ELSE LET rest == unassigned_jobs_reversed(Tail(jobs), assigned)
         IN  IF Head(jobs).id \in assigned THEN rest
             ELSE Append(rest, Head(jobs).id)

RECURSIVE unassigned_jobs(_, _)
unassigned_jobs(jobs, assigned) ==
    IF jobs = <<>> THEN <<>>
    ELSE (IF Head(jobs).id \in assigned THEN <<>> ELSE <<Head(jobs).id>>)
         \o unassigned_jobs(Tail(jobs), assigned)

(* Variant of within_window: an arrival at the end of a window is outside. *)
within_window_end_exclusive(arrival_time, time_windows) ==
    \E k \in 1..Len(time_windows) :
        arrival_time >= time_windows[k][1] /\ arrival_time < time_windows[k][2]

within_window(arrival_time, time_windows) ==
    \E k \in 1..Len(time_windows) :
        arrival_time >= time_windows[k][1] /\ arrival_time <= time_windows[k][2]

(* Variant of is_violation: the arrival is read one entry too early. *)
is_violation_previous_arrival(route, i) ==
    LET job == job_map_get(route.route[i])
    IN  /\ job.some
        /\ job.val.time_windows.some
        /\ ~within_window(route.arrival_times[i], job.val.time_windows.val)

\* lines 132-151, for position i of route
is_violation(route, i) ==
    LET job == job_map_get(route.route[i])
    IN  /\ job.some
        /\ job.val.time_windows.some
        /\ ~within_window(route.arrival_times[i + 1], job.val.time_windows.val)

time_window_violations(rs) ==
    Cardinality({ <<r, i>> \in (1..Len(rs)) \X (1..(MaxRouteJobs + MaxJobs)) :
                    i <= Len(rs[r].route) /\ is_violation(rs[r], i) })

(* Variant of summary: the cost carries no penalty for violations. *)
summary_cost_without_penalty(rs, unassigned) ==
    LET total_distance == SumSeq([r \in 1..Len(rs) |-> rs[r].distance])
        total_duration == SumSeq([r \in 1..Len(rs) |-> rs[r].duration])
        violations == time_window_violations(rs)
    IN  [unassigned |-> unassigned,
         cost |-> total_duration,
         distance |-> total_distance,
         duration |-> total_duration,
         routes |-> Len(rs),
         summary_unassigned |-> Len(unassigned),
         time_window_violations |-> violations]

summary(rs, unassigned) ==
    LET total_distance == SumSeq([r \in 1..Len(rs) |-> rs[r].distance])
        total_duration == SumSeq([r \in 1..Len(rs) |-> rs[r].duration])
        violations == time_window_violations(rs)
    IN  [unassigned |-> unassigned,
         cost |-> total_duration + violations * ViolationPenalty,
         distance |-> total_distance,
         duration |-> total_duration,
         routes |-> Len(rs),
         summary_unassigned |-> Len(unassigned),
         time_window_violations |-> violations]

Summarize ==
    /\ pc = "RoutesBuilt"
    /\ pc' = "Summarized"
    /\ response' = summary(routes, unassigned_jobs(request.jobs, routed_ids(routes)))
    /\ UNCHANGED <<request, stage, vi, matrix, locations, assigned_jobs, loc_state, routes, calls,
                   ran, committed, http, ev>>

(***************************************************************************)
(* api/routes.rs, optimize, lines 15-34: the handler's answer.             *)
(***************************************************************************)
Respond ==
    /\ pc = "Summarized"
    /\ pc' = "Responded"
    /\ http' = 200
    /\ UNCHANGED <<request, stage, vi, matrix, locations, assigned_jobs, loc_state, routes, calls,
                   ran, committed, response, ev>>

(* Variant of RespondError: the error is reported in the body of a 200 reply. *)
RespondError_status_ok ==
    /\ pc = "Error"
    /\ http = 0
    /\ http' = 200
    /\ UNCHANGED <<request, pc, stage, vi, matrix, locations, assigned_jobs, loc_state, routes,
                   calls, ran, committed, response, ev>>

RespondError ==
    /\ pc = "Error"
    /\ http = 0
    /\ http' = 500
    /\ UNCHANGED <<request, pc, stage, vi, matrix, locations, assigned_jobs, loc_state, routes,
                   calls, ran, committed, response, ev>>

Next ==
    \/ Branch
    \/ TableCall
    \/ VehicleStart
    \/ ExtendRound
    \/ VehicleRoute
    \/ ExpandVehicle
    \/ RoutesDone
    \/ Summarize
    \/ Respond
    \/ RespondError

Spec == Init /\ [][Next]_vars

(***************************************************************************)
(* The two pure evaluators on their own: Init draws an arrival time and a  *)
(* window list, or a remaining-capacity and a delivery vector; the actions *)
(* apply the checks of lines 480-493 and 506-531 to them.                  *)
(***************************************************************************)
EvalWindows == { <<100, 200>>, <<0, 100>>, <<250, 300>>, <<200, 150>> }

EvalWindowLists ==
    {NoneSeq} \cup { Some(w) : w \in UNION { [1..n -> EvalWindows] : n \in 0..MaxWindows } }

EvalArrivals == { 50 * k : k \in 0..MaxArrivalSteps }

EvalVectors == UNION { [1..n -> {0, 5, 10}] : n \in 0..MaxDims }

EvalDeliveries == {NoneSeq} \cup { Some(d) : d \in EvalVectors }

EvalInit ==
    /\ request = NoRequest
    /\ pc = "Eval"
    /\ stage = "none"
    /\ vi = 0
    /\ matrix = "none"
    /\ locations = <<>>
    /\ assigned_jobs = {}
    /\ loc_state = NoLocals
    /\ routes = <<>>
    /\ calls = <<>>
    /\ ran = {}
    /\ committed = <<>>
    /\ response = NoResponse
    /\ http = 0
    /\ \/ \E a \in EvalArrivals, w \in EvalWindowLists :
            ev = [NoEval EXCEPT !.arrival = a, !.time_windows = w]
       \/ \E c \in EvalVectors, d \in EvalDeliveries :
            ev = [NoEval EXCEPT !.remaining = c, !.delivery = d]

ApplyTimeWindowCheck ==
    /\ pc = "Eval"
    /\ "tw" \notin ev.applied
    /\ ev' = [ev EXCEPT !.tw = time_window_check(ev.arrival, ev.time_windows),
                        !.applied = @ \cup {"tw"}]
    /\ UNCHANGED <<request, pc, stage, vi, matrix, locations, assigned_jobs, loc_state, routes,
                   calls, ran, committed, response, http>>

ApplyCapacityCheck ==
    /\ pc = "Eval"
    /\ "cap" \notin ev.applied
    /\ ev' = [ev EXCEPT !.can_deliver = capacity_check(ev.remaining, ev.delivery),
                        !.applied = @ \cup {"cap"}]
    /\ UNCHANGED <<request, pc, stage, vi, matrix, locations, assigned_jobs, loc_state, routes,
                   calls, ran, committed, response, http>>

EvalNext == ApplyTimeWindowCheck \/ ApplyCapacityCheck

EvalSpec == EvalInit /\ [][EvalNext]_vars

(***************************************************************************)
(* Vocabulary of the properties.                                           *)
(***************************************************************************)
Finished == pc \in {"Summarized", "Responded"}

Constructed == "assigner" \in ran

Predefined == "expander" \in ran

RequestIds == { request.jobs[k].id : k \in 1..Len(request.jobs) }

RoutePositions == { <<r, i>> \in (1..Len(routes)) \X (1..(MaxRouteJobs + MaxJobs)) :
                      i <= Len(routes[r].route) }

\* the vehicle being extended, while one is
Extending == pc = "ConstructedBranch" /\ stage \in {"extend", "route"}

DeliveryAt(job, i) ==
    IF job.delivery.some /\ i <= Len(job.delivery.val) THEN job.delivery.val[i] ELSE 0

CommittedLoad(ids, i) == SumSeq([k \in 1..Len(ids) |-> DeliveryAt(find_job(ids[k]), i)])

(***************************************************************************)
(* C1: in every response the produced routes and `unassigned` partition    *)
(* the request's jobs: no job id occurs twice in the routes, no unassigned *)
(* id is routed, and the routed ids with the unassigned ids are exactly    *)
(* the request's job ids.                                                  *)
(***************************************************************************)
C1_ResponsePartitionsJobs ==
    Finished =>
        /\ \A p \in RoutePositions, q \in RoutePositions :
              p # q => routes[p[1]].route[p[2]] # routes[q[1]].route[q[2]]
        /\ Range(response.unassigned) \cap routed_ids(routes) = {}
        /\ routed_ids(routes) \cup Range(response.unassigned) = RequestIds

(***************************************************************************)
(* C2: every produced route has as many arrival times and as many          *)
(* departure times as it has steps.                                        *)
(***************************************************************************)
C2_TimesMatchSteps ==
    \A r \in 1..Len(routes) :
        /\ Len(routes[r].arrival_times) = Len(routes[r].steps)
        /\ Len(routes[r].departure_times) = Len(routes[r].steps)

(***************************************************************************)
(* C3: on the constructed path no committed job list and no produced route *)
(* holds more than 10 jobs, and only committed jobs are marked assigned,   *)
(* so that the jobs beyond the tenth stay candidates of later vehicles or  *)
(* are reported unassigned.                                                *)
(***************************************************************************)
C3_AtMostTenJobsPerVehicle ==
    Constructed =>
        /\ Len(loc_state.route_jobs) <= 10
        /\ \A v \in 1..Len(committed) : Len(committed[v]) <= 10
        /\ \A r \in 1..Len(routes) : Len(routes[r].route) <= 10
        /\ assigned_jobs =
              Range(loc_state.route_jobs) \cup UNION { Range(committed[v]) : v \in 1..Len(committed) }
        /\ Finished =>
              RequestIds \ routed_ids(routes) = Range(response.unassigned)

C3_Witness ==
    /\ Finished
    /\ Constructed
    /\ Len(routes) = 2
    /\ Len(routes[1].route) = 10
    /\ Len(routes[2].route) >= 1
    /\ Len(request.jobs) > 10

(***************************************************************************)
(* C4: while a vehicle is extended its remaining capacity is never         *)
(* negative in any dimension (the deduction never underflows) and equals   *)
(* the vehicle's capacity less the committed deliveries, which therefore   *)
(* never exceed the capacity.                                              *)
(***************************************************************************)
C4_CapacityNeverExceeded ==
    Extending =>
        /\ Len(loc_state.current_capacity) = Len(request.vehicles[vi].capacity)
        /\ \A i \in 1..Len(loc_state.current_capacity) :
              /\ loc_state.current_capacity[i] >= 0
              /\ loc_state.current_capacity[i] + CommittedLoad(loc_state.route_jobs, i)
                    = request.vehicles[vi].capacity[i]
              /\ CommittedLoad(loc_state.route_jobs, i) <= request.vehicles[vi].capacity[i]

C4_Witness ==
    /\ Extending
    /\ Len(loc_state.route_jobs) = 2
    /\ request.vehicles[vi].capacity = <<10>>
    /\ loc_state.current_capacity = <<0>>

(***************************************************************************)
(* C5: on the constructed path a job whose delivery exceeds, in a          *)
(* dimension within the capacity vector, the capacity of every vehicle is  *)
(* never committed and is listed in `unassigned`.                          *)
(***************************************************************************)
Oversized(job) ==
    /\ job.delivery.some
    /\ \A v \in 1..Len(request.vehicles) :
          \E i \in 1..Len(job.delivery.val) :
              /\ i <= Len(request.vehicles[v].capacity)
              /\ job.delivery.val[i] > request.vehicles[v].capacity[i]

C5_OversizedJobNeverAssigned ==
    Constructed =>
        \A k \in 1..Len(request.jobs) :
            Oversized(request.jobs[k]) =>
                /\ request.jobs[k].id \notin assigned_jobs
                /\ request.jobs[k].id \notin routed_ids(routes)
                /\ Finished =>
                      request.jobs[k].id \in Range(response.unassigned)

C5_Witness ==
    /\ Finished
    /\ Constructed
    /\ Len(request.vehicles) = 1
    /\ request.vehicles[1].capacity = <<5>>
    /\ Len(routes) = 1
    /\ \E k \in 1..Len(request.jobs) :
          /\ request.jobs[k].delivery = Some(<<10>>)
          /\ request.jobs[k].location = request.vehicles[1].end
          /\ request.jobs[k].id \in Range(response.unassigned)

Evaluated(c) == ~c.skipped /\ c.can_deliver

C8_NoWindowsAlwaysFeasible ==
    Constructed =>
        \A k \in 1..Len(loc_state.cands) :
            (/\ Evaluated(loc_state.cands[k])
             /\ request.jobs[k].time_windows.val = <<>>) =>
                /\ loc_state.cands[k].tw_feasible
                /\ loc_state.cands[k].service_start_time = loc_state.cands[k].arrival_time
                /\ loc_state.cands[k].waiting_time = 0

(***************************************************************************)
(* C9: the job committed in a round has the least score, table duration    *)
(* from the current location plus half the wait, among the unassigned jobs *)
(* that pass the capacity, time-window and vehicle-end checks of the       *)
(* round, the earliest in the request's list among equals.  One vehicle of *)
(* capacity [10] and two jobs of delivery [5], job 1 nearer the depot, get *)
(* the route [1, 2] and nothing unassigned.                                *)
(***************************************************************************)
\* 20 * (travel + 0.5 * waited), travel in tenths
ClaimedScore(from, job, waited) ==
    2 * TableDuration(matrix, from, job.location) + 10 * waited

\* where the vehicle stood before its last commit
PreviousLocation ==
    IF Len(loc_state.route_jobs) = 1 THEN request.vehicles[vi].start
    ELSE find_job(loc_state.route_jobs[Len(loc_state.route_jobs) - 1]).location

TwoJobScenario ==
    /\ Len(request.vehicles) = 1
    /\ request.vehicles[1].capacity = <<10>>
    /\ request.vehicles[1].start = request.vehicles[1].end
    /\ ~request.vehicles[1].time_window.some
    /\ Len(request.jobs) = 2
    /\ RequestIds = {1, 2}
    /\ \A k \in 1..2 : /\ request.jobs[k].delivery = Some(<<5>>)
                       /\ ~request.jobs[k].time_windows.some
    /\ find_job(1).location # find_job(2).location
    /\ TableDuration(matrix, request.vehicles[1].start, find_job(1).location)
          < TableDuration(matrix, request.vehicles[1].start, find_job(2).location)

C9_CommitsLeastScore ==
    Constructed =>
        /\ (Extending /\ loc_state.best_job # 0) =>
              LET c == loc_state.cands
                  b == loc_state.best_job
                  sc(k) == ClaimedScore(PreviousLocation, request.jobs[k], c[k].waiting_time)
              IN  /\ Last(loc_state.route_jobs) = request.jobs[b].id
                  /\ Eligible(c[b])
                  /\ \A k \in 1..Len(c) :
                        Eligible(c[k]) =>
                            /\ sc(b) <= sc(k)
                            /\ sc(b) = sc(k) => b <= k
        /\ (TwoJobScenario /\ stage = "route") => loc_state.route_jobs = <<1, 2>>
        /\ (TwoJobScenario /\ Finished /\ routes # <<>>) =>
              /\ routes[1].route = <<1, 2>>
              /\ response.unassigned = <<>>

C9_Witness ==
    /\ Finished
    /\ TwoJobScenario
    /\ Len(routes) = 1
    /\ routes[1].route = <<1, 2>>
    /\ response.unassigned = <<>>

(***************************************************************************)
(* C10: the Route Expander runs for the request exactly when some vehicle  *)
(* has a present, non-empty `steps` list and the Greedy Assigner exactly   *)
(* when none has; never both, and under the expander no job is committed   *)
(* greedily: every route is the job sequence of its vehicle's steps.       *)
(***************************************************************************)
SomeVehicleHasSteps ==
    \E v \in 1..Len(request.vehicles) :
        request.vehicles[v].steps.some /\ Len(request.vehicles[v].steps.val) > 0

C10_BranchIsPerRequest ==
    /\ pc = "PredefinedBranch" => Predefined
    /\ pc = "ConstructedBranch" => Constructed
    /\ pc \notin {"Received", "Eval"} =>
          /\ Predefined = SomeVehicleHasSteps
          /\ Constructed = ~SomeVehicleHasSteps
          /\ ~(Predefined /\ Constructed)
    /\ Predefined =>
          /\ assigned_jobs = {}
          /\ committed = <<>>
          /\ loc_state = NoLocals
          /\ \A n \in 1..Len(calls) : calls[n].kind # "table"
          /\ \A r \in 1..Len(routes) :
                \E v \in 1..Len(request.vehicles) :
                    /\ request.vehicles[v].id = routes[r].vehicle_id
                    /\ request.vehicles[v].steps.some
                    /\ routes[r].route = job_ids(request.vehicles[v].steps.val)

C10_Witness ==
    /\ Finished
    /\ Predefined
    /\ \E v \in 1..Len(request.vehicles) : ~request.vehicles[v].steps.some
    /\ Len(routes) = 1
    /\ response.unassigned # <<>>

(***************************************************************************)
(* Oracle failures (routing.rs 232-243, 413-417, 592-603; routes.rs 15-34).*)
(***************************************************************************)
FailedCalls == { n \in 1..Len(calls) : calls[n].outcome = "fail" }

(* C11: an oracle call that fails is not repeated: it is the last call of  *)
(* the request and nothing is called after it; process_request then ends   *)
(* with an error, so that no response exists whatever routes were built    *)
(* before, the handler answers with status 500 and never with 200, and the *)
(* request stays in that state.                                            *)
C11_FailureEndsRequest ==
    /\ [](/\ FailedCalls # {} => /\ FailedCalls = {Len(calls)}
                                 /\ pc = "Error"
          /\ pc = "Error" => /\ FailedCalls # {}
                             /\ response = NoResponse
                             /\ http \in {0, 500}
          /\ http = 500 => pc = "Error")
    /\ [][pc = "Error" => /\ pc' = "Error"
                          /\ http' = 500
                          /\ calls' = calls
                          /\ response' = NoResponse]_vars

C11_Witness ==
    /\ pc = "Error"
    /\ http = 500
    /\ Len(routes) >= 1
    /\ Len(calls) >= 3
    /\ calls[Len(calls)].kind = "route"
    /\ response = NoResponse

(***************************************************************************)
(* The summary (routing.rs 103-161).                                       *)
(***************************************************************************)
\* the route calls of the request that were answered with a route, in order
AnsweredCalls ==
    SelectSeq(calls, LAMBDA c : c.kind = "route" /\ c.outcome = "ok")

(* C12: in a finished request each produced route belongs to one answered  *)
(* route call; summary.duration and summary.distance are the sums, over    *)
(* the produced routes, of the whole seconds and whole metres the oracle   *)
(* reported for them; summary.cost is summary.duration plus 3600 for each  *)
(* counted time-window violation, and equals summary.duration when no      *)
(* violation was counted.                                                  *)
C12_SummaryTotals ==
    Finished =>
        /\ Len(AnsweredCalls) = Len(routes)
        /\ response.duration =
             SumSeq([r \in 1..Len(routes) |->
                       Trunc(OsrmRoute(AnsweredCalls[r].coordinates).duration)])
        /\ response.distance =
             SumSeq([r \in 1..Len(routes) |->
                       Trunc(OsrmRoute(AnsweredCalls[r].coordinates).distance)])
        /\ response.cost = response.duration + 3600 * response.time_window_violations
        /\ response.time_window_violations = 0 => response.cost = response.duration

C12_Witness ==
    /\ Finished
    /\ Len(routes) = 2
    /\ response.time_window_violations >= 1
    /\ response.cost > response.duration
    /\ response.duration > routes[1].duration

\* the job the summary looks up for an id: the request's job of that id
JobsOfId(id) == { k \in 1..Len(request.jobs) : request.jobs[k].id = id }

\* position p of a produced route holds a job with a time-window list and the
\* arrival recorded for it lies in none of the windows, ends included
OutsideEveryWindow(p) ==
    LET route == routes[p[1]]
        arrival == route.arrival_times[p[2] + 1]
    IN  \E k \in JobsOfId(route.route[p[2]]) :
            /\ request.jobs[k].time_windows.some
            /\ \A w \in 1..Len(request.jobs[k].time_windows.val) :
                  \/ arrival < request.jobs[k].time_windows.val[w][1]
                  \/ arrival > request.jobs[k].time_windows.val[w][2]

(* C13: in a finished request the number of violations counted is the      *)
(* number of (route, position) pairs whose job has a time-window list and  *)
(* whose recorded arrival lies in none of its windows, the window ends     *)
(* counting as inside; a job without a time-window list is never counted.  *)
C13_ViolationCount ==
    Finished =>
        response.time_window_violations =
            Cardinality({ p \in RoutePositions : OutsideEveryWindow(p) })

C13_Witness ==
    /\ Finished
    /\ response.time_window_violations >= 1
    /\ \E p \in RoutePositions :
          /\ ~OutsideEveryWindow(p)
          /\ \E k \in JobsOfId(routes[p[1]].route[p[2]]) :
                /\ request.jobs[k].time_windows.some
                /\ \E w \in 1..Len(request.jobs[k].time_windows.val) :
                      routes[p[1]].arrival_times[p[2] + 1]
                          = request.jobs[k].time_windows.val[w][2]

\* the list position of the job that has this id
PositionOfId(id) == CHOOSE k \in 1..Len(request.jobs) : request.jobs[k].id = id

\* the ids that stand at some position of a produced route
RoutedIds == { routes[p[1]].route[p[2]] : p \in RoutePositions }

(* C14: in a finished request the unassigned list holds exactly the ids of *)
(* the request's jobs that stand in no produced route, each once and in    *)
(* the order of the request's job list, and summary.unassigned is the      *)
(* length of that list.                                                    *)
C14_UnassignedInRequestOrder ==
    Finished =>
        /\ Range(response.unassigned) = RequestIds \ RoutedIds
        /\ \A i, j \in 1..Len(response.unassigned) :
              i < j => PositionOfId(response.unassigned[i])
                         < PositionOfId(response.unassigned[j])
        /\ response.summary_unassigned = Len(response.unassigned)

C14_Witness ==
    /\ Finished
    /\ Len(response.unassigned) = 2
    /\ response.unassigned[1] > response.unassigned[2]
    /\ response.summary_unassigned = 2

(***************************************************************************)
(* The vehicle's time-window end on the constructed path (462-463,533-542).*)
(***************************************************************************)
\* a job has just been committed to the vehicle being extended
JustCommitted == Extending /\ stage = "extend" /\ loc_state.best_job # 0

\* tenths of a second from the start of the committed job's service to the
\* arrival at the vehicle's end, by the table
ReturnTenths ==
    LET job == request.jobs[loc_state.best_job]
    IN  10 * (loc_state.cands[loc_state.best_job].service_start_time + job.service)
          + TableDuration(matrix, job.location, request.vehicles[vi].end)

(* C16 as stated: a job committed to a vehicle with a time window has      *)
(* service start + service duration + table travel duration to the         *)
(* vehicle's end location at most the end of the vehicle's time window.    *)
C16_ReturnsByWindowEnd ==
    (JustCommitted /\ request.vehicles[vi].time_window.some) =>
        ReturnTenths <= 10 * request.vehicles[vi].time_window.val[2]

(* C16, amended: with the table travel duration cut to whole seconds the   *)
(* sum is at most the end of the vehicle's time window, so the true return *)
(* is less than one second after it; for a vehicle without a time window   *)
(* the return never decides: a job is feasible exactly when its own        *)
(* time windows allow it.                                                  *)
C16_ReturnsByWindowEndInWholeSeconds ==
    /\ (JustCommitted /\ request.vehicles[vi].time_window.some) =>
          /\ Trunc(ReturnTenths) <= request.vehicles[vi].time_window.val[2]
          /\ ReturnTenths < 10 * (request.vehicles[vi].time_window.val[2] + 1)
    /\ (Extending /\ ~request.vehicles[vi].time_window.some) =>
          \A k \in 1..Len(loc_state.cands) :
              loc_state.cands[k].is_feasible = loc_state.cands[k].tw_feasible

C16_Witness ==
    /\ JustCommitted
    /\ request.vehicles[vi].time_window.some
    /\ Trunc(ReturnTenths) = request.vehicles[vi].time_window.val[2]
    /\ ReturnTenths > 10 * request.vehicles[vi].time_window.val[2]
    /\ \E k \in 1..Len(loc_state.cands) :
          /\ loc_state.cands[k].tw_feasible
          /\ ~loc_state.cands[k].is_feasible

(***************************************************************************)
(* The Route Expander's clock (routing.rs 254-301).                        *)
(***************************************************************************)
\* the vehicle a produced route belongs to (vehicle ids are list positions)
VehicleOf(route) == request.vehicles[route.vehicle_id]

\* the service_after values the Start steps of a vehicle's input carry
StartServiceAfter(vehicle) ==
    { vehicle.steps.val[k].service_after.val :
        k \in { j \in 1..Len(vehicle.steps.val) :
                  /\ vehicle.steps.val[j].type = "start"
                  /\ vehicle.steps.val[j].service_after.some } }

(* C17: on the predefined path the time at which a vehicle leaves its      *)
(* start is the service_after of its input Start step when that is         *)
(* present; otherwise, also when the first input step is a Start step      *)
(* without service_after, it is the start of the vehicle's time window     *)
(* when the vehicle has one; otherwise it is zero.                         *)
C17_ExpanderStartTime ==
    Predefined =>
        \A r \in 1..Len(routes) :
            LET vehicle == VehicleOf(routes[r])
                leaves == routes[r].departure_times[1]
            IN  IF StartServiceAfter(vehicle) # {}
                THEN leaves \in StartServiceAfter(vehicle)
                ELSE IF vehicle.time_window.some
                     THEN leaves = vehicle.time_window.val[1]
                     ELSE leaves = 0

\* the ids of the Job steps of a vehicle's input, in the given order
GivenJobs(vehicle) ==
    LET job_steps == SelectSeq(vehicle.steps.val, LAMBDA s : s.type = "job")
    IN  [i \in 1..Len(job_steps) |-> job_steps[i].id]

\* whole seconds the oracle reported for leg i of the r-th answered call
LegSeconds(r, i) == Trunc(OsrmRoute(AnsweredCalls[r].coordinates).legs[i])

\* the windows of a list that are still open at an arrival
OpenWindows(time_windows, arrival) ==
    { w \in 1..Len(time_windows) : time_windows[w][2] >= arrival }

(* C18: on the predefined path no job is rejected, dropped or moved        *)
(* because of its time windows.  Every produced route holds the jobs of    *)
(* its vehicle's steps in the given order; each job's arrival is the       *)
(* departure from the stop before plus the oracle's leg duration in whole  *)
(* seconds; a known job none of whose windows ends at or after the arrival *)
(* is served at the raw arrival and left at arrival + service, while one   *)
(* with such a window is served from the start of the first of them or     *)
(* from the arrival, whichever is later; and every answered route call     *)
(* yields a route unless the expander stopped abruptly.                    *)
C18_ExpanderKeepsEveryJob ==
    Predefined =>
        /\ pc # "Panicked" => Len(routes) = Len(AnsweredCalls)
        /\ \A r \in 1..Len(routes) :
              LET route == routes[r]
              IN  /\ route.route = GivenJobs(VehicleOf(route))
                  /\ Len(route.arrival_times) = Len(route.route) + 1
                  /\ Len(route.departure_times) = Len(route.route) + 1
                  /\ \A i \in 1..Len(route.route) :
                        LET arrival == route.arrival_times[i + 1]
                            departure == route.departure_times[i + 1]
                            known == JobsOfId(route.route[i])
                        IN  /\ arrival = route.departure_times[i] + LegSeconds(r, i)
                            /\ route.steps[i + 1].type = "job"
                            /\ route.steps[i + 1].id = route.route[i]
                            /\ known = {} => departure = arrival
                            /\ \A k \in known :
                                  LET job == request.jobs[k]
                                      open == OpenWindows(job.time_windows.val, arrival)
                                      first == CHOOSE w \in open : \A x \in open : w <= x
                                  IN  IF open = {}
                                      THEN departure = arrival + job.service
                                      ELSE departure =
                                             (IF arrival < job.time_windows.val[first][1]
                                              THEN job.time_windows.val[first][1]
                                              ELSE arrival) + job.service

C18_Witness ==
    /\ Predefined
    /\ Finished
    /\ \E r \in 1..Len(routes) :
          /\ Len(routes[r].route) = 2
          /\ \E k \in JobsOfId(routes[r].route[1]) :
                /\ request.jobs[k].time_windows.val # <<>>
                /\ OpenWindows(request.jobs[k].time_windows.val,
                               routes[r].arrival_times[2]) = {}
                /\ routes[r].departure_times[2]
                      = routes[r].arrival_times[2] + request.jobs[k].service
          /\ JobsOfId(routes[r].route[2]) # {}
    /\ response.unassigned = <<>>

(***************************************************************************)
(* The order of the oracle calls (routing.rs 232-243, 413-417, 586-603).   *)
(***************************************************************************)
\* the positions of the call log that hold a call for this vehicle's route
RouteCallsFor(v) ==
    { n \in 1..Len(calls) : calls[n].kind = "route" /\ calls[n].vehicle = v }

TableCalls == { n \in 1..Len(calls) : calls[n].kind = "table" }

\* the vehicles whose turn is over
Visited ==
    { v \in 1..Len(request.vehicles) :
        \/ v < vi
        \/ pc \in {"RoutesBuilt", "Summarized", "Responded"} }

(* C19: the oracle calls of a request are issued one at a time, each step  *)
(* adding at most one call to those made before.  On the constructed path  *)
(* exactly one table call is made, and it precedes every route call; on    *)
(* the predefined path none is made.  A vehicle gets at most one route     *)
(* call, the route calls follow the vehicles' list order, and a vehicle    *)
(* to which no job was committed, or whose steps name no job, gets none,   *)
(* while every other visited vehicle gets one.                             *)
C19_OracleCallOrder ==
    /\ [](/\ Predefined => TableCalls = {}
          /\ Constructed =>
                /\ TableCalls \subseteq {1}
                /\ (calls # <<>> \/ stage \in {"vehicle", "extend", "route"}
                      \/ pc \in {"RoutesBuilt", "Summarized", "Responded"})
                       => TableCalls = {1}
          /\ \A v \in 1..Len(request.vehicles) : Cardinality(RouteCallsFor(v)) <= 1
          /\ \A m, n \in 1..Len(calls) :
                (m < n /\ calls[m].kind = "route" /\ calls[n].kind = "route")
                    => calls[m].vehicle < calls[n].vehicle
          /\ Constructed =>
                \A v \in 1..Len(committed) :
                    (committed[v] = <<>>) <=> (RouteCallsFor(v) = {})
          /\ Predefined =>
                \A v \in Visited :
                    (~request.vehicles[v].steps.some
                        \/ GivenJobs(request.vehicles[v]) = <<>>)
                      <=> (RouteCallsFor(v) = {}))
    /\ [][\/ calls' = calls
          \/ \E c \in {calls'[Len(calls')]} : calls' = Append(calls, c)]_vars

C19_Witness ==
    /\ Constructed
    /\ Finished
    /\ Len(request.vehicles) = 3
    /\ committed[2] = <<>>
    /\ Len(calls) = 3
    /\ calls[1].kind = "table"
    /\ calls[2].vehicle = 1
    /\ calls[3].vehicle = 3

(***************************************************************************)
(* The phases of a request (routing.rs 48-196, 430-468; routes.rs 15-34).  *)
(* The handler and the loops of process_request run to completion once     *)
(* every awaited oracle call has returned: a step that can be taken is     *)
(* eventually taken.                                                       *)
(***************************************************************************)
FairSpec == Spec /\ WF_vars(Next)

\* the phases in the order a request passes them
PhaseOrder ==
    << {"Received"}, {"PredefinedBranch", "ConstructedBranch"}, {"RoutesBuilt"},
       {"Summarized"}, {"Responded"} >>

PhaseRank(p) == CHOOSE n \in 1..Len(PhaseOrder) : p \in PhaseOrder[n]

\* the request ended without a response: an Err answered by the handler, or
\* the abrupt stop of an index out of range
EndedWithError == pc \in {"Error", "Panicked"}

\* the request is over
Ended ==
    \/ pc = "Responded" /\ http = 200
    \/ pc = "Error" /\ http = 500
    \/ pc = "Panicked"

\* a bound on the steps a request still has to take: the phases ahead, the
\* vehicles not yet visited, each with room for its rounds, and the handler's
\* answer
VehicleWeight == Len(request.jobs) + 4

VehiclesLeft == Len(request.vehicles) + 1 - vi

Remaining ==
    CASE pc = "Received" -> 10 + (Len(request.vehicles) + 2) * VehicleWeight
      [] pc \in {"PredefinedBranch", "ConstructedBranch"} ->
             10 + (CASE stage = "table" -> (Len(request.vehicles) + 1) * VehicleWeight
                     [] stage = "vehicle" -> VehiclesLeft * VehicleWeight
                     [] stage = "extend" -> VehiclesLeft * VehicleWeight - 1 - loc_state.rounds
                     [] stage = "route" -> VehiclesLeft * VehicleWeight - VehicleWeight + 1
                     [] OTHER -> 0)
      [] pc = "RoutesBuilt" -> 3
      [] pc = "Summarized" -> 2
      [] pc = "Error" -> IF http = 0 THEN 1 ELSE 0
      [] OTHER -> 0

(* C20: a request passes Received, one of PredefinedBranch and             *)
(* ConstructedBranch, RoutesBuilt, Summarized and Responded in this order, *)
(* one phase at a time and never back, or leaves a branch with an error    *)
(* and stays there; only one branch is ever entered; the extension loop of *)
(* a vehicle runs at most as many rounds as there are jobs and no vehicle  *)
(* is visited twice.  A request that is not over can always take a step,   *)
(* and every step lowers a bound on the steps that remain, which is never  *)
(* negative; every oracle call returning, each request eventually reaches  *)
(* Responded or ends with an error.                                        *)
C20_PhasesInOrderAndTermination ==
    /\ [](/\ Cardinality(ran) <= 1
          /\ pc \in {"RoutesBuilt", "Summarized", "Responded"} => Cardinality(ran) = 1
          /\ loc_state.rounds <= Len(request.jobs)
          /\ Len(committed) <= Len(request.vehicles)
          /\ Len(committed) \in {vi - 1, vi, 0}
          /\ Remaining >= 0
          /\ Ended \/ ENABLED Next
          /\ Ended => Remaining = 0)
    /\ [][/\ ~EndedWithError =>
                \/ pc' = pc
                \/ ~EndedWithError' /\ PhaseRank(pc') = PhaseRank(pc) + 1
                \/ EndedWithError' /\ PhaseRank(pc) = 2
          /\ EndedWithError => pc' = pc
          /\ ran \subseteq ran'
          /\ vi' \in {vi, vi + 1, 1}
          /\ vi' = 1 => pc = "Received" \/ vi = 1
          /\ Remaining' < Remaining]_vars
    /\ <>Ended

C20_Witness ==
    /\ pc = "Responded"
    /\ http = 200
    /\ Constructed
    /\ Len(request.vehicles) = 2
    /\ Len(request.jobs) = 2
    /\ Len(routes) = 2
    /\ loc_state.rounds >= 1

(***************************************************************************)
(* The vehicle's end on the constructed path (routing.rs 612-619, 649-654).*)
(***************************************************************************)
\* the location of the job at the last position of a produced route
LastJobLocation(route) == find_job(Last(route.route)).location

(* C21: on the constructed path the last entries of a route's              *)
(* arrival_times and departure_times, which stand for the vehicle's end,   *)
(* both equal the departure time of the last committed job plus the whole  *)
(* seconds of the final leg of the oracle's route answer, whatever the     *)
(* table says for the same pair of locations, and the End step carries the *)
(* same two values.                                                        *)
C21_EndTimesFromFinalLeg ==
    Constructed =>
        \A r \in 1..Len(routes) :
            LET route == routes[r]
                n == Len(route.route)
                final == route.departure_times[n + 1] + LegSeconds(r, n + 1)
            IN  /\ n >= 1
                /\ Len(route.arrival_times) = n + 2
                /\ Len(route.departure_times) = n + 2
                /\ Len(OsrmRoute(AnsweredCalls[r].coordinates).legs) = n + 1
                /\ LegSeconds(r, n + 1)
                      = Trunc(LegDuration(LastJobLocation(route), VehicleOf(route).end))
                /\ Last(route.arrival_times) = final
                /\ Last(route.departure_times) = final
                /\ Last(route.steps).type = "end"
                /\ Last(route.steps).arrival_time = final
                /\ Last(route.steps).departure_time = final

C21_Witness ==
    /\ Constructed
    /\ Finished
    /\ \E r \in 1..Len(routes) :
          /\ Len(routes[r].route) = 2
          /\ Last(routes[r].arrival_times)
                = routes[r].departure_times[3] + LegSeconds(r, 3)
          /\ LegSeconds(r, 3)
                # Trunc(TableDuration(matrix, LastJobLocation(routes[r]),
                                      VehicleOf(routes[r]).end))

(***************************************************************************)
(* Vehicles and jobs the Route Expander passes over (routing.rs 211-225).  *)
(***************************************************************************)
\* the vehicle has no steps, or its steps hold no Job entry
NamesNoJob(vehicle) ==
    \/ ~vehicle.steps.some
    \/ \A k \in 1..Len(vehicle.steps.val) : vehicle.steps.val[k].type # "job"

\* the ids that the steps of some vehicle of the request name
NamedIds ==
    UNION { { vehicle.steps.val[k].id :
                k \in { j \in 1..Len(vehicle.steps.val) :
                          vehicle.steps.val[j].type = "job" } } :
            vehicle \in { request.vehicles[v] :
                            v \in { w \in 1..Len(request.vehicles) :
                                      request.vehicles[w].steps.some } } }

(* C22: on the predefined path a vehicle without steps, or whose steps     *)
(* hold no Job entry, yields no route and causes no oracle call, and no    *)
(* job is ever committed greedily; once the request is finished every job  *)
(* that no vehicle's steps name stands in no route and is reported in      *)
(* `unassigned`.                                                           *)
C22_UnnamedJobsStayUnassigned ==
    Predefined =>
        /\ \A v \in 1..Len(request.vehicles) :
              NamesNoJob(request.vehicles[v]) =>
                  /\ RouteCallsFor(request.vehicles[v].id) = {}
                  /\ \A r \in 1..Len(routes) :
                        routes[r].vehicle_id # request.vehicles[v].id
        /\ TableCalls = {}
        /\ assigned_jobs = {}
        /\ committed = <<>>
        /\ RoutedIds \subseteq NamedIds
        /\ Finished =>
              \A id \in RequestIds \ NamedIds :
                  \E k \in 1..Len(response.unassigned) : response.unassigned[k] = id

C22_Witness ==
    /\ Predefined
    /\ Finished
    /\ \E v \in 1..Len(request.vehicles) :
          /\ request.vehicles[v].steps.some
          /\ request.vehicles[v].steps.val # <<>>
          /\ NamesNoJob(request.vehicles[v])
    /\ \E v \in 1..Len(request.vehicles) : ~request.vehicles[v].steps.some
    /\ calls = <<>>
    /\ Len(request.jobs) = 2
    /\ Len(response.unassigned) = 2

(***************************************************************************)
(* Commitment is final (routing.rs 426-428, 475-478, 557-571).             *)
(***************************************************************************)
\* the committed lists of the vehicles visited so far, the one in progress last
CommittedLists ==
    IF Extending THEN Append(committed, loc_state.route_jobs) ELSE committed

NoDuplicates(s) == \A i, j \in 1..Len(s) : s[i] = s[j] => i = j

IsPrefix(s, t) == Len(s) <= Len(t) /\ \A i \in 1..Len(s) : s[i] = t[i]

(* C23: on the constructed path the committed lists of the vehicles are    *)
(* at every point free of duplicates and pairwise disjoint and hold        *)
(* exactly the jobs marked assigned; a list changes only by a job being    *)
(* appended at its end, the lists of vehicles already visited do not       *)
(* change at all, and the job committed in a round was not committed       *)
(* before: in every round the jobs committed so far, to this or to an      *)
(* earlier vehicle, are skipped as candidates.                             *)
C23_CommitmentIsFinal ==
    /\ [](Constructed =>
            /\ \A v \in 1..Len(CommittedLists) : NoDuplicates(CommittedLists[v])
            /\ \A v, w \in 1..Len(CommittedLists) :
                  v # w => Range(CommittedLists[v]) \cap Range(CommittedLists[w]) = {}
            /\ assigned_jobs = UNION { Range(CommittedLists[v]) :
                                         v \in 1..Len(CommittedLists) }
            /\ \A k \in 1..Len(loc_state.cands) :
                  loc_state.cands[k].skipped =>
                      /\ k # loc_state.best_job
                      /\ \E v \in 1..Len(CommittedLists) :
                            request.jobs[k].id \in Range(CommittedLists[v]))
    /\ [][Constructed =>
            /\ IsPrefix(committed, committed')
            /\ Len(committed') <= Len(committed) + 1
            /\ Len(committed') = Len(committed) + 1 =>
                  Last(committed') = loc_state.route_jobs
            /\ (Extending /\ Extending') =>
                  /\ IsPrefix(loc_state.route_jobs, loc_state'.route_jobs)
                  /\ Len(loc_state'.route_jobs) <= Len(loc_state.route_jobs) + 1
                  /\ Len(loc_state'.route_jobs) = Len(loc_state.route_jobs) + 1 =>
                        Last(loc_state'.route_jobs) \notin assigned_jobs
            /\ assigned_jobs \subseteq assigned_jobs']_vars

C23_Witness ==
    /\ Constructed
    /\ Extending
    /\ Len(committed) = 1
    /\ Len(committed[1]) >= 1
    /\ Len(loc_state.route_jobs) = 1
    /\ \E k \in 1..Len(loc_state.cands) :
          /\ loc_state.cands[k].skipped
          /\ request.jobs[k].id \in Range(committed[1])
          /\ loc_state.cands[k].can_deliver
          /\ loc_state.cands[k].is_feasible

(***************************************************************************)
(* Service starts of the Greedy Assigner (routing.rs 506-554).             *)
(***************************************************************************)
\* the time windows of a job are well formed: each starts no later than it ends
WellFormedWindows(job) ==
    \A w \in 1..Len(job.time_windows.val) :
        job.time_windows.val[w][1] <= job.time_windows.val[w][2]

(* C24: on the constructed path, for every committed job with at least one *)
(* time window, all its windows starting no later than they end, the       *)
(* service start recorded for it, its departure time less its service      *)
(* duration, lies inside one of its windows, ends included, and is not     *)
(* earlier than its recorded arrival; and in no round is a job committed   *)
(* that has a window list none of whose windows ends at or after the       *)
(* arrival computed for it in that round.                                  *)
C24_ServiceStartInsideWindow ==
    Constructed =>
        /\ \A p \in RoutePositions :
              LET job == find_job(routes[p[1]].route[p[2]])
                  arrival == routes[p[1]].arrival_times[p[2] + 1]
                  service_start == routes[p[1]].departure_times[p[2] + 1] - job.service
              IN  (job.time_windows.val # <<>> /\ WellFormedWindows(job)) =>
                      /\ \E w \in 1..Len(job.time_windows.val) :
                            /\ job.time_windows.val[w][1] <= service_start
                            /\ service_start <= job.time_windows.val[w][2]
                      /\ service_start >= arrival
        /\ \A k \in 1..Len(loc_state.cands) :
              (/\ request.jobs[k].time_windows.some
               /\ OpenWindows(request.jobs[k].time_windows.val,
                              loc_state.cands[k].arrival_time) = {})
                  => ~(JustCommitted /\ loc_state.best_job = k)

C24_Witness ==
    /\ Constructed
    /\ Finished
    /\ \E p \in RoutePositions :
          LET job == find_job(routes[p[1]].route[p[2]])
          IN  /\ job.time_windows.val # <<>>
              /\ routes[p[1]].departure_times[p[2] + 1] - job.service
                    > routes[p[1]].arrival_times[p[2] + 1]
    /\ \E k \in 1..Len(request.jobs) :
          /\ request.jobs[k].time_windows.val # <<>>
          /\ request.jobs[k].id \notin RoutedIds

(***************************************************************************)
(* Violations of committed jobs (routing.rs 131-150, 511-554, 569-571).    *)
(***************************************************************************)
\* what the vehicle waited at a position of a produced route of the assigner
WaitedAt(p) ==
    LET job == find_job(routes[p[1]].route[p[2]])
    IN  routes[p[1]].departure_times[p[2] + 1] - job.service
          - routes[p[1]].arrival_times[p[2] + 1]

(* C25: on the constructed path a violation is counted for a committed job *)
(* only if the vehicle waited for it, its arrival preceding the start of   *)
(* the window it was matched with; a job committed without a wait is never *)
(* counted, so that a response all of whose committed jobs were served on  *)
(* arrival has a cost equal to its total duration.                         *)
C25_ViolationOnlyAfterWait ==
    (Constructed /\ Finished) =>
        /\ \A p \in RoutePositions :
              /\ WaitedAt(p) >= 0
              /\ OutsideEveryWindow(p) => WaitedAt(p) > 0
        /\ response.time_window_violations
              <= Cardinality({ p \in RoutePositions : WaitedAt(p) > 0 })
        /\ (\A p \in RoutePositions : WaitedAt(p) = 0) =>
              /\ response.time_window_violations = 0
              /\ response.cost = response.duration

C25_Witness ==
    /\ Constructed
    /\ Finished
    /\ response.time_window_violations = 1
    /\ response.cost = response.duration + 3600
    /\ \E p \in RoutePositions : WaitedAt(p) > 0 /\ OutsideEveryWindow(p)
    /\ \E p \in RoutePositions : WaitedAt(p) > 0 /\ ~OutsideEveryWindow(p)

(***************************************************************************)
(* An answer without a route on the constructed path (routing.rs 601-610). *)
(***************************************************************************)
\* the vehicles whose route call was answered without a route
EmptyAnswered ==
    { calls[n].vehicle : n \in { m \in 1..Len(calls) :
                                   calls[m].kind = "route" /\ calls[m].outcome = "empty" } }

(* C26: on the constructed path an oracle route answer without a route,    *)
(* for a vehicle with committed jobs, does not end the request: the step   *)
(* that receives it moves on to the next vehicle, and a request without a  *)
(* failed call never ends in an error.  Such a vehicle has committed jobs  *)
(* and produces no route; its jobs stay marked assigned and are committed  *)
(* to no other vehicle, and in the finished request each of them stands in *)
(* no route and is reported in `unassigned`.                               *)
C26_EmptyAnswerLeavesJobsUnassigned ==
    /\ [](Constructed =>
            /\ (FailedCalls = {} => pc # "Error")
            /\ \A v \in EmptyAnswered :
                  /\ v <= Len(committed)
                  /\ committed[v] # <<>>
                  /\ \A r \in 1..Len(routes) : routes[r].vehicle_id # v
                  /\ Range(committed[v]) \subseteq assigned_jobs
                  /\ \A w \in 1..Len(CommittedLists) :
                        w # v => Range(CommittedLists[w]) \cap Range(committed[v]) = {}
                  /\ Finished =>
                        /\ Range(committed[v]) \cap RoutedIds = {}
                        /\ Range(committed[v]) \subseteq Range(response.unassigned))
    /\ [][(Constructed /\ EmptyAnswered' # EmptyAnswered) =>
              /\ pc' = pc
              /\ vi' = vi + 1
              /\ routes' = routes
              /\ assigned_jobs' = assigned_jobs]_vars

C26_Witness ==
    /\ Constructed
    /\ pc = "Responded"
    /\ http = 200
    /\ Len(request.vehicles) = 2
    /\ EmptyAnswered = {1}
    /\ routes = <<>>
    /\ response.unassigned # <<>>
    /\ \E k \in 1..Len(loc_state.cands) :
          /\ request.jobs[k].id \in Range(committed[1])
          /\ loc_state.cands[k].skipped
          /\ loc_state.cands[k].can_deliver
          /\ loc_state.cands[k].is_feasible

(***************************************************************************)
(* Leg indices of the Route Expander (routing.rs 225-237, 272-277).        *)
(***************************************************************************)
\* the number of legs of the oracle's answer to the n-th call: one for each
\* consecutive pair of the waypoints sent
LegsOfCall(n) == Len(OsrmRoute(calls[n].coordinates).legs)

(* C27: on the predefined path, also when steps name ids that are not in   *)
(* the request's job list, the leg read for the i-th job of a vehicle's    *)
(* sequence exists in the oracle's leg list, so that the expansion never   *)
(* stops with an access out of range and every vehicle whose route call is *)
(* answered with a route yields a route.                                   *)
C27_ExpanderLegIndexInRange ==
    Predefined =>
        /\ pc # "Panicked"
        /\ \A n \in 1..Len(calls) :
              (calls[n].kind = "route" /\ calls[n].outcome = "ok") =>
                  /\ Len(GivenJobs(request.vehicles[calls[n].vehicle])) <= LegsOfCall(n)
                  /\ \E r \in 1..Len(routes) : routes[r].vehicle_id = calls[n].vehicle

====
